---- MODULE Spec2Model ----
(***************************************************************************)
(* gptxt: the interactive synthesis / review / execution loop of           *)
(* src/main.rs (execute_program_loop, prompt, edit_program_with_vi,        *)
(* generate_program, execute_program) and the interrupt listener of main.  *)
(*                                                                         *)
(* A state of the model is a point where the process blocks: the awaited   *)
(* completion call, the key-wait of prompt(), the vi subprocess, the       *)
(* script run, plus the top of the 'outer loop.  Each action is the        *)
(* straight-line code between two such points.  The session runs with the  *)
(* --json, --show-lines and --show-prompt flags unset.                     *)
(***************************************************************************)
EXTENDS Integers, Sequences, FiniteSets, TLC

VARIABLES
    pc,            \* where the main task is
    ctx,           \* which loop issued the pending generate / edit
    input,         \* `input`: the payload read at start-up
    program,       \* `program`
    program_hist,  \* `program_hist`
    edited,        \* `edited`
    completion,    \* the completion future awaited by generate_program
    tmpFile,       \* content of the NamedTempFile of edit_program_with_vi
    vi,            \* the vi subprocess: none, running, exit0, exit1
    outcome,       \* value of the last execute_program call
    rawMode,       \* terminal raw mode
    altOut,        \* alternate screen active on stdout
    altErr,        \* alternate screen active on stderr
    spinner,       \* the ProgressBar spinner is ticking
    sigPending,    \* a SIGINT is queued in the tokio signal stream
    stdout,        \* writes to the primary output stream, in order
    stderr,        \* writes to the diagnostic stream, in order
    exitCode       \* process exit status, Running while the process lives

vars == <<pc, ctx, input, program, program_hist, edited, completion, tmpFile, vi,
          outcome, rawMode, altOut, altErr, spinner, sigPending, stdout,
          stderr, exitCode>>

----------------------------------------------------------------------------
(* Bounds *)

\* accepted key presses in one session
MaxKeys == 3

\* length of the input payloads of the executor specification
MaxStrLen == 3

\* lines of the candidate scripts of the executor specification
MaxLines == 2

----------------------------------------------------------------------------
(* Characters and texts *)

\* characters of a result text: backslash, the letters r and n, the control
\* characters carriage return and line feed, any other character
Chars == {"bs", "r", "n", "CR", "LF", "a"}

RECURSIVE StringsUpTo(_)
StringsUpTo(k) ==
    IF k = 0 THEN {<<>>}
    ELSE LET S == StringsUpTo(k - 1)
         IN  S \cup {Append(s, c) : s \in {t \in S : Len(t) = k - 1}, c \in Chars}

\* a program text is a sequence of lines: "ws" a blank (whitespace only)
\* line, "syntaxerr" a line that does not parse, "raise" a statement that
\* raises, "r_data" the statement result = data, "r_int" the statement
\* result = 1, "pass" a statement without effect
Lines == {"ws", "syntaxerr", "raise", "r_data", "r_int", "pass"}

NoProgram == <<>>

RECURSIVE TrimStart(_)
TrimStart(s) ==
    IF s # <<>> /\ Head(s) = "ws" THEN TrimStart(Tail(s)) ELSE s

RECURSIVE TrimEnd(_)
TrimEnd(s) ==
    IF s # <<>> /\ s[Len(s)] = "ws" THEN TrimEnd(SubSeq(s, 1, Len(s) - 1)) ELSE s

\* str::trim
Trim(s) == TrimEnd(TrimStart(s))

IsPrefix(p, s) == Len(p) <= Len(s) /\ SubSeq(s, 1, Len(p)) = p

\* str::replace: every non-overlapping match of from, left to right
RECURSIVE Replace(_, _, _)
Replace(s, from, to) ==
    IF s = <<>> THEN <<>>
    ELSE IF IsPrefix(from, s)
         THEN to \o Replace(SubSeq(s, Len(from) + 1, Len(s)), from, to)
         ELSE <<Head(s)>> \o Replace(Tail(s), from, to)

NormalizeOnlyNewline(result_str) == Replace(result_str, <<"bs", "n">>, <<"LF">>)

\* main.rs:588
Normalize(result_str) ==
    Replace(Replace(result_str, <<"bs", "r">>, <<"CR">>), <<"bs", "n">>, <<"LF">>)

----------------------------------------------------------------------------
(* The embedded interpreter, as far as execute_program uses it *)

StrValue(s) == [type |-> "str", val |-> s]
IntValue == [type |-> "int", val |-> <<"1">>]

\* vm.compile: a text with a line that does not parse has no code object
vm_compile(text) ==
    IF \E i \in 1..Len(text) : text[i] = "syntaxerr"
    THEN [ok |-> FALSE, code |-> <<>>, err |-> <<"SyntaxError">>]
    ELSE [ok |-> TRUE, code |-> text, err |-> <<>>]

\* vm.new_scope_with_builtins followed by set_item("data", input)
new_scope(data) == [n \in {"data"} |-> StrValue(data)]

set_item(scope, name, value) ==
    [n \in (DOMAIN scope) \cup {name} |-> IF n = name THEN value ELSE scope[n]]

\* vm.run_code_obj: the statements run in order against the scope, the
\* first one that raises ends the run
RECURSIVE run_code_obj(_, _)
run_code_obj(code, scope) ==
    IF code = <<>> THEN [raised |-> FALSE, scope |-> scope]
    ELSE LET st == Head(code)
         IN  IF st = "raise" THEN [raised |-> TRUE, scope |-> scope]
             ELSE IF st = "r_data"
                  THEN run_code_obj(Tail(code), set_item(scope, "result", scope["data"]))
             ELSE IF st = "r_int"
                  THEN run_code_obj(Tail(code), set_item(scope, "result", IntValue))
             ELSE run_code_obj(Tail(code), scope)

\* vm.write_exception: the rendered traceback
write_exception == <<"Traceback", "Exception">>

ExecOk(v, calls) == [ok |-> TRUE, kind |-> "Ok", text |-> v, calls |-> calls]
ExecErr(kind, detail, calls) ==
    [ok |-> FALSE, kind |-> kind, text |-> detail, calls |-> calls]

NoOutcome == [ok |-> FALSE, kind |-> "None", text |-> <<>>, calls |-> <<>>]

execute_program_lookup_first(data, text) ==
    LET compiled == vm_compile(text)
        run == run_code_obj(compiled.code, new_scope(data))
    IN  IF ~compiled.ok
        THEN ExecErr("CompileError", compiled.err, <<"compile">>)
        ELSE IF "result" \notin DOMAIN run.scope
        THEN ExecErr("ResultNotFound", <<>>,
                     <<"compile", "new_scope", "set_item", "run_code_obj", "get_item">>)
        ELSE IF run.raised
        THEN ExecErr("ExecutionError", write_exception,
                     <<"compile", "new_scope", "set_item", "run_code_obj">>)
        ELSE IF run.scope["result"].type # "str"
        THEN ExecErr("ResultConversionError", <<run.scope["result"].type>>,
                     <<"compile", "new_scope", "set_item", "run_code_obj",
                       "get_item", "try_into_value">>)
        ELSE ExecOk(Normalize(run.scope["result"].val),
                    <<"compile", "new_scope", "set_item", "run_code_obj",
                      "get_item", "try_into_value">>)

\* execute_program; calls lists the interpreter operations it invoked
execute_program(data, text) ==
    LET compiled == vm_compile(text)
    IN  IF ~compiled.ok
        THEN ExecErr("CompileError", compiled.err, <<"compile">>)
        ELSE LET run == run_code_obj(compiled.code, new_scope(data))
             IN  IF run.raised
                 THEN ExecErr("ExecutionError", write_exception,
                              <<"compile", "new_scope", "set_item", "run_code_obj">>)
                 ELSE IF "result" \notin DOMAIN run.scope
                 THEN ExecErr("ResultNotFound", <<>>,
                              <<"compile", "new_scope", "set_item", "run_code_obj",
                                "get_item">>)
                 ELSE IF run.scope["result"].type # "str"
                 THEN ExecErr("ResultConversionError", <<run.scope["result"].type>>,
                              <<"compile", "new_scope", "set_item", "run_code_obj",
                                "get_item", "try_into_value">>)
                 ELSE ExecOk(Normalize(run.scope["result"].val),
                             <<"compile", "new_scope", "set_item", "run_code_obj",
                               "get_item", "try_into_value">>)

----------------------------------------------------------------------------
(* The two output streams *)

\* one write: what was written and the text it carried
Write(ev, text) == [ev |-> ev, text |-> text]

\* print_error!, print_progress! (mod util): a styled line on stderr
print_error(err, ev, text) == Append(err, Write(ev, text))
print_progress(err, ev, text) == Append(err, Write(ev, text))

eprintln(err) == Append(err, Write("newline", <<>>))

\* fmt::Display for ExecuteError
ExecuteErrorDisplay(o) ==
    CASE o.kind = "CompileError" -> Write("Error compiling Python program", o.text)
      [] o.kind = "ExecutionError" -> Write("Error executing Python program", o.text)
      [] o.kind = "ResultNotFound" -> Write("Error: 'result' variable not found", <<>>)
      [] o.kind = "ResultConversionError" ->
             Write("Error: Failed to convert 'result'", o.text)

RephraseMessage == "Re-generated program is identical; rephrase your task"

\* show_generated_program, without the reset of edited
show_generated_program(err, text, ed) ==
    LET e1 == print_progress(err, IF ~ed THEN "Generated program:" ELSE "Edited program:", <<>>)
    IN  e1 \o <<Write("rule", <<>>), Write("program", text), Write("rule", <<>>)>>

\* the part of prompt() before the key loop: message, flush
prompt_message(err, which) == Append(err, Write(which, <<>>))

\* the part of prompt() after the key loop: the echoed key
prompt_echo(err, ch) == Append(err, Write("echo", <<ch>>))

\* accepted keys read so far
KeysRead == Cardinality({i \in 1..Len(stderr) : stderr[i].ev = "echo"})

----------------------------------------------------------------------------
(* The environment: what the collaborators may hand to the program *)

\* input payloads of a session
Inputs == {<<"a">>, <<"bs", "n">>}

\* texts of the first choice of a completion, before trimming
Completions == {<<"r_data">>, <<"ws", "r_data">>, <<"raise">>, <<"syntaxerr", "r_data">>}

\* a file whose bytes are not valid UTF-8
NonUtf8 == <<"non_utf8">>

\* contents the user may save from vi
EditorFiles == {<<"r_int", "ws">>, <<"pass">>, NonUtf8}

Running == -1

Idle == [st |-> "idle", text |-> <<>>]
Pending == [st |-> "pending", text |-> <<>>]
NoFile == [exists |-> FALSE, content |-> <<>>]

----------------------------------------------------------------------------
(* Initial state: main has read the configuration and the input, and      *)
(* execute_program_loop awaits the first completion (main.rs:302)          *)

SessionStart(payloads) ==
    /\ pc = "generating"
    /\ ctx = "init"
    /\ input \in payloads
    /\ program = NoProgram
    /\ program_hist = <<>>
    /\ edited = FALSE
    /\ completion = Pending
    /\ tmpFile = NoFile
    /\ vi = "none"
    /\ outcome = NoOutcome
    /\ rawMode = FALSE
    /\ altOut = FALSE
    /\ altErr = FALSE
    /\ spinner = TRUE
    /\ sigPending = FALSE
    /\ stdout = <<>>
    /\ stderr = <<>>
    /\ exitCode = Running

Init == SessionStart(Inputs)

----------------------------------------------------------------------------
(* Synthesis *)

\* the completion collaborator answers the request of generate_program
ProviderResponds ==
    /\ pc = "generating"
    /\ completion.st = "pending"
    /\ \E r \in {[st |-> "ok", text |-> t] : t \in Completions}
               \cup {[st |-> "err", text |-> <<>>]} :
           completion' = r
    /\ UNCHANGED <<pc, ctx, input, program, program_hist, edited, tmpFile, vi, outcome,
                   rawMode, altOut, altErr, spinner, sigPending, stdout, stderr,
                   exitCode>>

\* generate_program after the await: the first choice, trimmed
generate_program(text) == Trim(text)

ContainsLast(hist, text) == hist # <<>> /\ hist[Len(hist)] = text

\* Vec::contains
Contains(hist, text) == \E i \in 1..Len(hist) : hist[i] = text

GenerateFailedReturns ==
    /\ pc = "generating"
    /\ completion.st = "err"
    /\ stderr' = print_error(stderr, "Error calling OpenAI API", <<>>)
    /\ pc' = "loop_top"
    /\ completion' = Idle
    /\ UNCHANGED <<ctx, input, program, program_hist, edited, tmpFile, vi, outcome,
                   rawMode, altOut, altErr, spinner, sigPending, stdout, exitCode>>

\* generate_program_with_progress fails: the error is printed and the
\* process exits with status 1 (main.rs:255-258)
GenerateFailed ==
    /\ pc = "generating"
    /\ completion.st = "err"
    /\ stderr' = print_error(stderr, "Error calling OpenAI API", <<>>)
    /\ pc' = "terminated"
    /\ exitCode' = 1
    /\ completion' = Idle
    /\ UNCHANGED <<ctx, input, program, program_hist, edited, tmpFile, vi, outcome,
                   rawMode, altOut, altErr, spinner, sigPending, stdout>>

FirstGeneratedNoSeed ==
    /\ pc = "generating"
    /\ ctx = "init"
    /\ completion.st = "ok"
    /\ program' = generate_program(completion.text)
    /\ program_hist' = <<>>
    /\ edited' = FALSE
    /\ spinner' = FALSE
    /\ completion' = Idle
    /\ pc' = "loop_top"
    /\ ctx' = "none"
    /\ UNCHANGED <<input, tmpFile, vi, outcome, rawMode, altOut, altErr, sigPending,
                   stdout, stderr, exitCode>>

\* the first candidate (main.rs:302-305)
FirstGenerated ==
    /\ pc = "generating"
    /\ ctx = "init"
    /\ completion.st = "ok"
    /\ program' = generate_program(completion.text)
    /\ program_hist' = <<program'>>
    /\ edited' = FALSE
    /\ spinner' = FALSE
    /\ completion' = Idle
    /\ pc' = "loop_top"
    /\ ctx' = "none"
    /\ UNCHANGED <<input, tmpFile, vi, outcome, rawMode, altOut, altErr, sigPending,
                   stdout, stderr, exitCode>>

RegeneratedLoopsOnDuplicate ==
    /\ pc = "generating"
    /\ ctx \in {"review", "recover"}
    /\ completion.st = "ok"
    /\ program' = generate_program(completion.text)
    /\ spinner' = FALSE
    /\ completion' = Idle
    /\ ctx' = "none"
    /\ pc' = "loop_top"
    /\ program_hist' = IF Contains(program_hist, program')
                       THEN program_hist
                       ELSE Append(program_hist, program')
    /\ UNCHANGED <<input, edited, tmpFile, vi, outcome, rawMode, altOut, altErr,
                   sigPending, stdout, stderr, exitCode>>

\* a regenerated candidate, from the review prompt (main.rs:360-366) or from
\* the recovery prompt (main.rs:325-332)
Regenerated ==
    /\ pc = "generating"
    /\ ctx \in {"review", "recover"}
    /\ completion.st = "ok"
    /\ program' = generate_program(completion.text)
    /\ spinner' = FALSE
    /\ completion' = Idle
    /\ ctx' = "none"
    /\ IF Contains(program_hist, program')
       THEN /\ stderr' = print_error(stderr, RephraseMessage, <<>>)
            /\ pc' = "terminated"
            /\ exitCode' = 0
            /\ UNCHANGED program_hist
       ELSE /\ program_hist' = Append(program_hist, program')
            /\ pc' = "loop_top"
            /\ UNCHANGED <<stderr, exitCode>>
    /\ UNCHANGED <<input, edited, tmpFile, vi, outcome, rawMode, altOut, altErr,
                   sigPending, stdout>>

----------------------------------------------------------------------------
(* The 'outer loop *)

ShowAndPromptNoReset ==
    /\ pc = "loop_top"
    /\ stderr' = prompt_message(show_generated_program(stderr, program, edited),
                                "Run program?")
    /\ rawMode' = TRUE
    /\ pc' = "prompt_run"
    /\ UNCHANGED <<ctx, input, program, program_hist, edited, completion, tmpFile, vi,
                   outcome, altOut, altErr, spinner, sigPending, stdout, exitCode>>

\* main.rs:310-312: the candidate is shown and prompt() starts waiting
ShowAndPrompt ==
    /\ pc = "loop_top"
    /\ stderr' = prompt_message(show_generated_program(stderr, program, edited),
                                "Run program?")
    /\ edited' = FALSE
    /\ rawMode' = TRUE
    /\ pc' = "prompt_run"
    /\ UNCHANGED <<ctx, input, program, program_hist, completion, tmpFile, vi, outcome,
                   altOut, altErr, spinner, sigPending, stdout, exitCode>>

\* prompt_for_program_regen up to the key loop (main.rs:270-275, 485-490)
regen_prompt(err) == prompt_message(eprintln(err), "Regenerate program and try again?")

InPrompt == pc \in {"prompt_run", "prompt_regen"}

\* 'y' at the review prompt: the script starts running (main.rs:313-315)
KeyRun ==
    /\ pc = "prompt_run"
    /\ KeysRead < MaxKeys
    /\ rawMode' = FALSE
    /\ stderr' = eprintln(prompt_echo(stderr, "y"))
    /\ pc' = "running"
    /\ UNCHANGED <<ctx, input, program, program_hist, edited, completion, tmpFile,
                   vi, outcome, altOut, altErr, spinner, sigPending, stdout, exitCode>>

KeyRunInRecoveryRuns ==
    /\ pc = "prompt_regen"
    /\ KeysRead < MaxKeys
    /\ stderr' = eprintln(prompt_echo(stderr, "y"))
    /\ rawMode' = FALSE
    /\ pc' = "running"
    /\ UNCHANGED <<ctx, input, program, program_hist, edited, completion, tmpFile, vi,
                   outcome, altOut, altErr, spinner, sigPending, stdout, exitCode>>

\* 'y' at the recovery prompt: prompt() returns it and the loop rejects it
\* (main.rs:349-352)
KeyRunInRecovery ==
    /\ pc = "prompt_regen"
    /\ KeysRead < MaxKeys
    /\ stderr' = regen_prompt(print_error(prompt_echo(stderr, "y"),
                                          "Invalid input; enter 'r', 'q', or 'e'.", <<>>))
    /\ rawMode' = TRUE
    /\ UNCHANGED <<pc, ctx, input, program, program_hist, edited, completion, tmpFile,
                   vi, outcome, altOut, altErr, spinner, sigPending, stdout, exitCode>>

RunSucceededContinues(o) ==
    /\ stdout' = Append(stdout, Write("println", o.text))
    /\ pc' = "loop_top"
    /\ UNCHANGED <<stderr, rawMode, exitCode>>

\* Ok arm: the result is printed and the loop is left (main.rs:316-319)
RunSucceeded(o) ==
    /\ stdout' = Append(stdout, Write("println", o.text))
    /\ pc' = "terminated"
    /\ exitCode' = 0
    /\ UNCHANGED <<stderr, rawMode>>

RunFailedExits(o) ==
    /\ stderr' = Append(stderr, ExecuteErrorDisplay(o))
    /\ pc' = "terminated"
    /\ exitCode' = 1
    /\ UNCHANGED <<stdout, rawMode>>

\* Err arm: the error is printed and the recovery loop prompts
\* (main.rs:320-323)
RunFailed(o) ==
    /\ stderr' = regen_prompt(Append(stderr, ExecuteErrorDisplay(o)))
    /\ rawMode' = TRUE
    /\ pc' = "prompt_regen"
    /\ UNCHANGED <<stdout, exitCode>>

RunCompleteLeaks ==
    /\ pc = "running"
    /\ outcome' = execute_program(IF outcome.kind = "None" THEN input ELSE outcome.text,
                                  program)
    /\ IF outcome'.ok THEN RunSucceeded(outcome') ELSE RunFailed(outcome')
    /\ UNCHANGED <<ctx, input, program, program_hist, edited, completion, tmpFile, vi,
                   altOut, altErr, spinner, sigPending>>

\* the script has run (main.rs:315)
RunComplete ==
    /\ pc = "running"
    /\ outcome' = execute_program(input, program)
    /\ IF outcome'.ok THEN RunSucceeded(outcome') ELSE RunFailed(outcome')
    /\ UNCHANGED <<ctx, input, program, program_hist, edited, completion, tmpFile, vi,
                   altOut, altErr, spinner, sigPending>>

\* 'r': a new completion is requested (main.rs:358-360, 324-325)
KeyRegen ==
    /\ InPrompt
    /\ KeysRead < MaxKeys
    /\ rawMode' = FALSE
    /\ stderr' = IF pc = "prompt_run" THEN eprintln(prompt_echo(stderr, "r"))
                 ELSE prompt_echo(stderr, "r")
    /\ ctx' = IF pc = "prompt_run" THEN "review" ELSE "recover"
    /\ spinner' = TRUE
    /\ completion' = Pending
    /\ pc' = "generating"
    /\ UNCHANGED <<input, program, program_hist, edited, tmpFile, vi, outcome, altOut,
                   altErr, sigPending, stdout, exitCode>>

\* 'q' (main.rs:381, 348)
KeyQuit ==
    /\ InPrompt
    /\ KeysRead < MaxKeys
    /\ rawMode' = FALSE
    /\ stderr' = prompt_echo(stderr, "q")
    /\ pc' = "terminated"
    /\ exitCode' = 0
    /\ UNCHANGED <<ctx, input, program, program_hist, edited, completion, tmpFile,
                   vi, outcome, altOut, altErr, spinner, sigPending, stdout>>

\* any other key event: the loop of prompt() keeps polling (main.rs:516-518)
KeyIgnored ==
    /\ InPrompt
    /\ UNCHANGED vars

KeyInterruptKeepsRaw ==
    /\ InPrompt
    /\ \E combo \in {"Caught Ctrl+C; exiting.", "Caught Ctrl+\\; exiting."} :
           stderr' = print_error(stderr, combo, <<>>)
    /\ pc' = "terminated"
    /\ exitCode' = 0
    /\ UNCHANGED <<ctx, input, program, program_hist, edited, completion, tmpFile, vi,
                   outcome, rawMode, altOut, altErr, spinner, sigPending, stdout>>

\* Ctrl+C or Ctrl+\ read as a key by prompt() (main.rs:506-515)
KeyInterrupt ==
    /\ InPrompt
    /\ \E combo \in {"Caught Ctrl+C; exiting.", "Caught Ctrl+\\; exiting."} :
           stderr' = print_error(stderr, combo, <<>>)
    /\ rawMode' = FALSE
    /\ pc' = "terminated"
    /\ exitCode' = 0
    /\ UNCHANGED <<ctx, input, program, program_hist, edited, completion, tmpFile,
                   vi, outcome, altOut, altErr, spinner, sigPending, stdout>>

----------------------------------------------------------------------------
(* Editing *)

\* the Err arm of the match on edit_program_with_vi (main.rs:342-345,
\* 375-378)
EditErrorReport(err, e) ==
    print_error(eprintln(err), "Error editing program with 'vi'", <<e>>)

AfterEditErrorExits(c, err, e) ==
    /\ stderr' = EditErrorReport(err, e)
    /\ rawMode' = FALSE
    /\ pc' = "terminated"

\* where the loop that issued the edit goes after the Err arm: the review
\* loop shows the candidate again, the recovery loop prompts again
AfterEditError(c, err, e) ==
    IF c = "review"
    THEN /\ stderr' = EditErrorReport(err, e)
         /\ rawMode' = FALSE
         /\ pc' = "loop_top"
    ELSE /\ stderr' = regen_prompt(EditErrorReport(err, e))
         /\ rawMode' = TRUE
         /\ pc' = "prompt_regen"

\* 'e': edit_program_with_vi up to the wait for vi (main.rs:391-397);
\* the temporary file may fail to be created and vi may fail to start
KeyEdit ==
    /\ InPrompt
    /\ KeysRead < MaxKeys
    /\ \E launch \in {"tmp_error", "spawn_error", "spawned"} :
         LET c == IF pc = "prompt_run" THEN "review" ELSE "recover"
             e0 == eprintln(prompt_echo(stderr, "e"))
             e1 == Append(e0, Write("EnterAlternateScreen", <<>>))
         IN  CASE launch = "tmp_error" ->
                    /\ AfterEditError(c, e0, "cannot create temporary file")
                    /\ UNCHANGED <<ctx, tmpFile, vi, altOut, altErr, stdout>>
               [] launch = "spawn_error" ->
                    /\ stdout' = Append(stdout, Write("EnterAlternateScreen", <<>>))
                    /\ altOut' = TRUE
                    /\ altErr' = TRUE
                    /\ AfterEditError(c, e1, "cannot start vi")
                    /\ UNCHANGED <<ctx, tmpFile, vi>>
               [] launch = "spawned" ->
                    /\ tmpFile' = [exists |-> TRUE, content |-> program]
                    /\ vi' = "running"
                    /\ stdout' = Append(stdout, Write("EnterAlternateScreen", <<>>))
                    /\ altOut' = TRUE
                    /\ altErr' = TRUE
                    /\ stderr' = e1
                    /\ rawMode' = FALSE
                    /\ ctx' = c
                    /\ pc' = "editing"
    /\ UNCHANGED <<input, program, program_hist, edited, completion, outcome, spinner,
                   sigPending, exitCode>>

\* the user saves the file from vi
ViSaves ==
    /\ pc = "editing"
    /\ vi = "running"
    /\ \E f \in EditorFiles : tmpFile' = [exists |-> TRUE, content |-> f]
    /\ UNCHANGED <<pc, ctx, input, program, program_hist, edited, completion, vi, outcome,
                   rawMode, altOut, altErr, spinner, sigPending, stdout, stderr,
                   exitCode>>

\* vi exits, with status 0 or with a failure status
ViExits ==
    /\ pc = "editing"
    /\ vi = "running"
    /\ vi' \in {"exit0", "exit1"}
    /\ UNCHANGED <<pc, ctx, input, program, program_hist, edited, completion, tmpFile,
                   outcome, rawMode, altOut, altErr, spinner, sigPending, stdout, stderr,
                   exitCode>>

\* edit_program_with_vi returns the error of a failed vi (main.rs:399-401)
EditFailed ==
    /\ pc = "editing"
    /\ vi = "exit1"
    /\ vi' = "none"
    /\ tmpFile' = NoFile
    /\ AfterEditError(ctx, stderr, "vi exited with an error")
    /\ ctx' = "none"
    /\ UNCHANGED <<input, program, program_hist, edited, completion, outcome, altOut,
                   altErr, spinner, sigPending, stdout, exitCode>>

EditAcceptedStaysInRecovery(prog_edit) ==
    /\ program' = prog_edit
    /\ edited' = TRUE
    /\ pc' = IF ctx = "recover" THEN "prompt_regen" ELSE "loop_top"
    /\ rawMode' = (ctx = "recover")
    /\ UNCHANGED program_hist

EditAcceptedPushes(prog_edit) ==
    /\ program' = prog_edit
    /\ edited' = TRUE
    /\ pc' = "loop_top"
    /\ program_hist' = Append(program_hist, prog_edit)
    /\ UNCHANGED rawMode

\* Ok arm of the match on edit_program_with_vi (main.rs:337-340, 371-373)
EditAccepted(prog_edit) ==
    /\ program' = prog_edit
    /\ edited' = TRUE
    /\ pc' = "loop_top"
    /\ UNCHANGED <<program_hist, rawMode>>

\* edit_program_with_vi after a successful vi: the screens are left and the
\* file is read back and trimmed (main.rs:403-411)
EditReturns ==
    /\ pc = "editing"
    /\ vi = "exit0"
    /\ vi' = "none"
    /\ stdout' = Append(stdout, Write("LeaveAlternateScreen", <<>>))
    /\ altOut' = FALSE
    /\ altErr' = FALSE
    /\ tmpFile' = NoFile
    /\ ctx' = "none"
    /\ LET e1 == Append(stderr, Write("LeaveAlternateScreen", <<>>))
       IN  IF tmpFile.content = NonUtf8
           THEN /\ AfterEditError(ctx, e1, "stream did not contain valid UTF-8")
                /\ UNCHANGED <<program, edited, program_hist>>
           ELSE /\ stderr' = e1
                /\ EditAccepted(Trim(tmpFile.content))
    /\ UNCHANGED <<input, completion, outcome, spinner, sigPending, exitCode>>

----------------------------------------------------------------------------
(* The interrupt listener of main *)

\* a SIGINT reaches the process; tokio's handler queues it
Signal ==
    /\ pc # "terminated"
    /\ ~sigPending
    /\ sigPending' = TRUE
    /\ UNCHANGED <<pc, ctx, input, program, program_hist, edited, completion, tmpFile,
                   vi, outcome, rawMode, altOut, altErr, spinner, stdout, stderr, exitCode>>

\* ctrl_c_fut and program_fut are branches of one select! in one task: the
\* listener is polled only when program_fut is suspended at an await, and
\* the only await of program_fut is the completion call (main.rs:36-40,
\* 55-58, 254, 458)
AtAwait == pc = "generating"

CtrlCListener ==
    /\ sigPending
    /\ AtAwait
    /\ stderr' = print_error(stderr, "\nCaught Ctrl+C; exiting.", <<>>)
    /\ pc' = "terminated"
    /\ exitCode' = 0
    /\ UNCHANGED <<ctx, input, program, program_hist, edited, completion, tmpFile,
                   vi, outcome, rawMode, altOut, altErr, spinner, sigPending, stdout>>

----------------------------------------------------------------------------

Next ==
    \/ ProviderResponds
    \/ GenerateFailed
    \/ FirstGenerated
    \/ Regenerated
    \/ ShowAndPrompt
    \/ KeyRun
    \/ KeyRunInRecovery
    \/ RunComplete
    \/ KeyRegen
    \/ KeyQuit
    \/ KeyIgnored
    \/ KeyInterrupt
    \/ KeyEdit
    \/ ViSaves
    \/ ViExits
    \/ EditFailed
    \/ EditReturns
    \/ Signal
    \/ CtrlCListener

Spec == Init /\ [][Next]_vars

----------------------------------------------------------------------------
(* The executor specification: one session that runs its first candidate,  *)
(* over every input payload up to MaxStrLen characters and every script of *)
(* up to MaxLines lines                                                     *)

RECURSIVE ScriptsUpTo(_)
ScriptsUpTo(k) ==
    IF k = 0 THEN {<<>>}
    ELSE LET S == ScriptsUpTo(k - 1)
         IN  S \cup {Append(s, l) : s \in {t \in S : Len(t) = k - 1}, l \in Lines}

ExecInit == SessionStart(StringsUpTo(MaxStrLen))

\* the completion collaborator answers with any script
ExecProviderResponds ==
    /\ pc = "generating"
    /\ completion.st = "pending"
    /\ \E t \in ScriptsUpTo(MaxLines) : completion' = [st |-> "ok", text |-> t]
    /\ UNCHANGED <<pc, ctx, input, program, program_hist, edited, tmpFile, vi, outcome,
                   rawMode, altOut, altErr, spinner, sigPending, stdout, stderr,
                   exitCode>>

ExecNext ==
    \/ ExecProviderResponds
    \/ FirstGenerated
    \/ ShowAndPrompt
    \/ KeyRun
    \/ RunComplete

ExecSpec == ExecInit /\ [][ExecNext]_vars

----------------------------------------------------------------------------
(* Properties *)

Last(q) == q[Len(q)]

Range(q) == {q[i] : i \in 1..Len(q)}

\* the writes a step adds to the diagnostic stream
NewErr == SubSeq(stderr', Len(stderr) + 1, Len(stderr'))

\* the step is the exit of the interrupt listener
ListenerExits ==
    /\ pc' = "terminated"
    /\ stderr' = Append(stderr, Write("\nCaught Ctrl+C; exiting.", <<>>))

\* nothing happens after the process has exited
ExitIsFinal == pc = "terminated" => UNCHANGED vars

\* the step is prompt() returning the key ch
KeyEchoed(ch) == NewErr # <<>> /\ NewErr[1] = Write("echo", <<ch>>)

TypeOK ==
    /\ pc \in {"generating", "loop_top", "prompt_run", "running", "prompt_regen",
               "editing", "terminated"}
    /\ ctx \in {"init", "review", "recover", "none"}
    /\ edited \in BOOLEAN
    /\ rawMode \in BOOLEAN
    /\ exitCode \in {Running, 0, 1}

\* C1: a regenerated text that equals an entry of History ends the session
\* with the rephrase message, History and both result channels untouched;
\* any other regenerated text is appended to History and becomes the
\* current candidate at the top of the review loop
C1_RegenerateNeverRepeats ==
    [][(/\ pc = "generating"
        /\ ctx \in {"review", "recover"}
        /\ completion.st = "ok"
        /\ pc' # "generating"
        /\ ~ListenerExits)
       => LET new == generate_program(completion.text)
          IN  IF \E i \in 1..Len(program_hist) : program_hist[i] = new
              THEN /\ pc' = "terminated"
                   /\ stderr' = Append(stderr, Write(RephraseMessage, <<>>))
                   /\ program_hist' = program_hist
                   /\ stdout' = stdout
                   /\ outcome' = outcome
              ELSE /\ program_hist' = Append(program_hist, new)
                   /\ program' = new
                   /\ pc' = "loop_top"
                   /\ edited' = FALSE
                   /\ exitCode' = Running]_vars

C1_Witness ==
    /\ pc = "terminated"
    /\ Last(stderr).ev = RephraseMessage
    /\ Len(program_hist) = 2
    /\ program = program_hist[1]
    /\ outcome.kind # "None"

\* C2: a failed run of any class reports the error and leaves the process
\* alive at the recovery prompt, which is left only by r, e, q or an
\* interrupt key
C2_FailedRunEntersRecovery ==
    [][/\ (pc = "running" /\ pc' # "running" /\ ~outcome'.ok)
           => /\ outcome'.kind \in {"CompileError", "ExecutionError", "ResultNotFound",
                                    "ResultConversionError"}
              /\ pc' = "prompt_regen"
              /\ exitCode' = Running
              /\ NewErr # <<>>
              /\ NewErr[1] = ExecuteErrorDisplay(outcome')
              /\ Last(stderr').ev = "Regenerate program and try again?"
              /\ stdout' = stdout
       /\ (pc = "prompt_regen" /\ pc' # "prompt_regen")
           => \/ pc' = "generating" /\ KeyEchoed("r")
              \/ pc' = "editing" /\ KeyEchoed("e")
              \/ pc' = "terminated" /\ exitCode' = 0 /\ KeyEchoed("q")
              \/ /\ pc' = "terminated"
                 /\ exitCode' = 0
                 /\ Len(NewErr) = 1
                 /\ NewErr[1].ev \in {"Caught Ctrl+C; exiting.", "Caught Ctrl+\\; exiting."}]_vars

C2_Witness ==
    /\ pc = "prompt_regen"
    /\ exitCode = Running
    /\ outcome.kind = "ResultConversionError"
    /\ \E i \in 1..Len(stderr) : stderr[i].ev = "Error executing Python program"

\* C3: a successful run prints the normalized result on stdout and ends the
\* process with status 0; nothing happens afterwards
C3_SuccessfulRunPrintsAndExits ==
    [][/\ (pc = "running" /\ pc' # "running" /\ outcome'.ok)
           => /\ stdout' = Append(stdout, Write("println", outcome'.text))
              /\ pc' = "terminated"
              /\ exitCode' = 0
              /\ stderr' = stderr
       /\ ExitIsFinal]_vars

C3_Witness ==
    /\ pc = "terminated"
    /\ exitCode = 0
    /\ outcome.ok
    /\ input = <<"bs", "n">>
    /\ stdout = <<Write("println", <<"LF">>)>>

\* C4: stdout holds nothing, or exactly the result of the one successful run
C4_PrimaryStreamOnlyResult ==
    \/ stdout = <<>>
    \/ outcome.ok /\ stdout = <<Write("println", outcome.text)>>

\* text is what is left of content once leading and trailing blank lines
\* are removed
IsTrimOf(text, content) ==
    /\ text = <<>> \/ (text[1] # "ws" /\ text[Len(text)] # "ws")
    /\ \E i \in 0..Len(content) :
           /\ i + Len(text) <= Len(content)
           /\ text = SubSeq(content, i + 1, i + Len(text))
           /\ \A j \in 1..Len(content) :
                  (j <= i \/ j > i + Len(text)) => content[j] = "ws"

\* C5: a successful edit makes the trimmed file the current candidate,
\* marks it edited and leaves History as it was
C5_EditLeavesHistory ==
    [][(pc = "editing" /\ vi = "exit0" /\ tmpFile.content # NonUtf8 /\ pc' # "editing")
       => /\ IsTrimOf(program', tmpFile.content)
          /\ program_hist' = program_hist
          /\ edited'
          /\ pc' = "loop_top"]_vars

C5_Witness ==
    /\ pc = "loop_top"
    /\ edited
    /\ program = <<"r_int">>
    /\ program \notin Range(program_hist)
    /\ outcome.kind # "None"

\* the step reports an edit error
EditErrorReported ==
    \E i \in 1..Len(NewErr) : NewErr[i].ev = "Error editing program with 'vi'"

\* C6: a failed edit is reported, changes neither the candidate nor the
\* edited flag nor History, and leaves the process alive on its way to the
\* next prompt
C6_FailedEditChangesNothing ==
    [][/\ (pc = "editing" /\ vi = "exit1" /\ pc' # "editing") => EditErrorReported
       /\ EditErrorReported
           => /\ program' = program
              /\ edited' = edited
              /\ program_hist' = program_hist
              /\ exitCode' = Running
              /\ \/ pc \in {"prompt_run", "editing"} /\ pc' = "loop_top"
                 \/ /\ pc \in {"prompt_regen", "editing"}
                    /\ pc' = "prompt_regen"
                    /\ Last(stderr').ev = "Regenerate program and try again?"]_vars

C6_Witness ==
    /\ pc = "prompt_regen"
    /\ exitCode = Running
    /\ \E i \in 1..Len(stderr) :
           stderr[i] = Write("Error editing program with 'vi'", <<"vi exited with an error">>)

\* C7: once the completion call has failed, the next step of the process
\* is its exit: with the error reported and status 1, or through the
\* interrupt listener; History, stdout and the last run are untouched
C7_ProviderErrorIsFatal ==
    [][/\ (pc = "generating" /\ completion.st = "err" /\ (pc' # pc \/ stderr' # stderr))
           => /\ pc' = "terminated"
              /\ program_hist' = program_hist
              /\ stdout' = stdout
              /\ outcome' = outcome
              /\ \/ /\ stderr' = Append(stderr, Write("Error calling OpenAI API", <<>>))
                    /\ exitCode' = 1
                 \/ ListenerExits /\ sigPending
       /\ ExitIsFinal]_vars

C7_Witness ==
    /\ pc = "terminated"
    /\ exitCode = 1
    /\ Last(stderr).ev = "Error calling OpenAI API"
    /\ Len(program_hist) = 2
    /\ outcome.kind # "None"

\* a blocking step is in flight
Blocked ==
    \/ pc = "generating" /\ completion.st = "pending"
    \/ pc \in {"prompt_run", "prompt_regen", "editing", "running"}

\* C8: once an interrupt signal has arrived during a blocking step, the
\* main task does nothing more: the next thing the process does is the
\* exit of the listener
C8_InterruptTerminatesImmediately ==
    [][(sigPending /\ Blocked)
       => \/ ListenerExits
          \/ pc' = pc /\ stderr' = stderr /\ stdout' = stdout]_vars

\* what a script does, read off its text
C9Compiles(text) == \A i \in 1..Len(text) : text[i] # "syntaxerr"
C9Faults(text) == \E i \in 1..Len(text) : text[i] = "raise"
C9Assigns(text) == {i \in 1..Len(text) : text[i] \in {"r_data", "r_int"}}
C9LastAssign(text) == CHOOSE i \in C9Assigns(text) : \A j \in C9Assigns(text) : j <= i

C9Class(text) ==
    IF ~C9Compiles(text) THEN "CompileError"
    ELSE IF C9Faults(text) THEN "ExecutionError"
    ELSE IF C9Assigns(text) = {} THEN "ResultNotFound"
    ELSE IF text[C9LastAssign(text)] = "r_int" THEN "ResultConversionError"
    ELSE "Ok"

\* C9: the outcome of a run is the first that applies of CompileError (the
\* script is then never run), ExecutionError, ResultNotFound,
\* ResultConversionError, success
C9_OutcomePriority ==
    outcome.kind # "None"
    => /\ outcome.kind = C9Class(program)
       /\ outcome.ok <=> outcome.kind = "Ok"
       /\ outcome.kind = "CompileError" => "run_code_obj" \notin Range(outcome.calls)
       /\ outcome.kind # "CompileError" => "run_code_obj" \in Range(outcome.calls)

C9_Witness ==
    /\ outcome.kind = "ExecutionError"
    /\ program = <<"r_int", "raise">>
    /\ pc = "prompt_regen"

\* one pass over the text: a backslash followed by r or n becomes the
\* control character, every other character is copied
RECURSIVE C10Unescape(_)
C10Unescape(s) ==
    IF s = <<>> THEN <<>>
    ELSE IF Len(s) >= 2 /\ s[1] = "bs" /\ s[2] \in {"r", "n"}
         THEN <<IF s[2] = "r" THEN "CR" ELSE "LF">> \o C10Unescape(SubSeq(s, 3, Len(s)))
         ELSE <<s[1]>> \o C10Unescape(Tail(s))

\* C10: the text of a successful run is the result with each backslash-r
\* and backslash-n pair replaced by the control character and every other
\* character kept in place
C10_NormalizeOnlyEscapes ==
    outcome.ok
    => /\ outcome.text = C10Unescape(input)
       /\ stdout = <<Write("println", C10Unescape(input))>>

C10_Witness ==
    /\ outcome.ok
    /\ input = <<"bs", "bs", "n">>
    /\ outcome.text = <<"bs", "LF">>

\* the reports of a failed run
RunErrorEvents ==
    {"Error compiling Python program", "Error executing Python program",
     "Error: 'result' variable not found", "Error: Failed to convert 'result'"}

\* position of the last write of q that is one of evs, 0 when there is none
LastIndexOf(q, evs) ==
    LET I == {i \in 1..Len(q) : q[i].ev \in evs}
    IN  IF I = {} THEN 0 ELSE CHOOSE i \in I : \A j \in I : j <= i

\* C11: a run starts only from the review prompt, on the key y, and the
\* current candidate has been displayed after the report of the last failed
\* run; no key of the recovery prompt starts a run
C11_RunOnlyFromReview ==
    [][(pc' = "running" /\ pc # "running")
       => /\ pc = "prompt_run"
          /\ KeyEchoed("y")
          /\ Last(stderr).ev = "Run program?"
          /\ LET shown == LastIndexOf(stderr, {"program"})
                 failed == LastIndexOf(stderr, RunErrorEvents)
             IN  /\ shown > failed
                 /\ stderr[shown].text = program]_vars

C11_Witness ==
    /\ pc = "running"
    /\ outcome.kind # "None"
    /\ Len(program_hist) = 2
    /\ LastIndexOf(stderr, RunErrorEvents) > 0

\* C12: outside the wait for vi the alternate screen is active on neither
\* stream: edit has left it before it returns, whether it succeeds or fails
C12_AlternateScreenLeft ==
    pc # "editing" => ~altOut /\ ~altErr

\* C13: raw mode is off in every state outside the key loop of prompt(),
\* the states reached by an exit from inside that loop included
C13_RawModeOnlyInReader ==
    ~InPrompt => ~rawMode

C13_Witness ==
    /\ pc = "terminated"
    /\ Last(stderr).ev = "Caught Ctrl+\\; exiting."
    /\ LastIndexOf(stderr, {"Regenerate program and try again?"}) = Len(stderr) - 1
    /\ ~rawMode

\* the step is the return of an edit that succeeded
EditSucceeds ==
    /\ pc = "editing"
    /\ vi = "exit0"
    /\ tmpFile.content # NonUtf8
    /\ pc' # "editing"

\* C14: the top of the loop is reached with the screen restore as the last
\* diagnostic write exactly when an edit has just succeeded, and the display
\* that follows is labelled edited exactly then; every other display, a
\* redisplay of an edited candidate included, is labelled generated
C14_EditedLabelOnlyAfterEdit ==
    [][/\ (pc' = "loop_top" /\ pc # "loop_top")
           => ((stderr' # <<>> /\ Last(stderr').ev = "LeaveAlternateScreen") <=> EditSucceeds)
       /\ (pc = "loop_top" /\ pc' # "loop_top")
           => /\ Len(NewErr) >= 3
              /\ NewErr[1].ev = IF stderr # <<>> /\ Last(stderr).ev = "LeaveAlternateScreen"
                                THEN "Edited program:"
                                ELSE "Generated program:"
              /\ NewErr[3] = Write("program", program)]_vars

C14_Witness ==
    /\ pc = "prompt_run"
    /\ program \notin Range(program_hist)
    /\ \E i, j \in 1..Len(stderr) :
           /\ i < j
           /\ j + 2 <= Len(stderr)
           /\ stderr[i].ev = "Edited program:"
           /\ stderr[j].ev = "Generated program:"
           /\ stderr[i + 2] = Write("program", program)
           /\ stderr[j + 2] = Write("program", program)

\* C15: while a command is awaited, at either prompt, and while a script
\* runs, the current candidate is the text of the last display
C15_CurrentIsLastDisplayed ==
    pc \in {"prompt_run", "prompt_regen", "running"}
    => LET shown == LastIndexOf(stderr, {"program"})
       IN  shown > 0 /\ stderr[shown].text = program

C15_Witness ==
    /\ pc = "prompt_regen"
    /\ program \notin Range(program_hist)
    /\ stderr[LastIndexOf(stderr, {"program"})].text = program
    /\ \E i \in 1..Len(stderr) : stderr[i].ev = "Error editing program with 'vi'"

\* position of the first write of q that is one of evs, 0 when there is none
FirstIndexOf(q, evs) ==
    LET I == {i \in 1..Len(q) : q[i].ev \in evs}
    IN  IF I = {} THEN 0 ELSE CHOOSE i \in I : \A j \in I : i <= j

\* C16: every step leaves History as it is or adds one entry at its end:
\* the first candidate when History is empty, an accepted regenerated text
\* afterwards; whenever a command is awaited History is not empty and its
\* first entry is the first candidate that was displayed
C16_HistoryAppendOnly ==
    [][/\ \/ program_hist' = program_hist
          \/ /\ Len(program_hist') = Len(program_hist) + 1
             /\ SubSeq(program_hist', 1, Len(program_hist)) = program_hist
             /\ Last(program_hist') = program'
             /\ pc = "generating"
             /\ pc' = "loop_top"
             /\ completion.st = "ok"
             /\ program_hist = <<>> <=> ctx = "init"
       /\ pc' \in {"prompt_run", "prompt_regen"}
           => /\ program_hist' # <<>>
              /\ program_hist'[1] = stderr'[FirstIndexOf(stderr', {"program"})].text]_vars

C16_Witness ==
    /\ pc = "prompt_run"
    /\ Len(program_hist) = 3
    /\ program_hist[1] = stderr[FirstIndexOf(stderr, {"program"})].text
    /\ program = program_hist[3]

\* C17: at the recovery prompt the only keys that produce any output are
\* r, e, q and the interrupt combinations; every other key, y included, is
\* dropped without echo or message
C17_RecoveryAcceptsOnlyREQ ==
    [][(pc = "prompt_regen" /\ stderr' # stderr)
       => \/ KeyEchoed("r")
          \/ KeyEchoed("e")
          \/ KeyEchoed("q")
          \/ /\ Len(NewErr) = 1
             /\ NewErr[1].ev \in {"Caught Ctrl+C; exiting.", "Caught Ctrl+\\; exiting."}]_vars

\* C18: when a synthesis call ends, with a candidate or with an error, the
\* spinner has been cleared
C18_SpinnerCleared ==
    [][(/\ pc = "generating"
        /\ completion.st \in {"ok", "err"}
        /\ pc' # "generating"
        /\ ~ListenerExits)
       => ~spinner']_vars

\* C19: the input payload never changes, and the outcome of every run is
\* the one its script has on that payload, whatever runs, edits and
\* regenerations came before in the session
C19_RunDependsOnInputAndScript ==
    [][/\ input' = input
       /\ (pc = "running" /\ pc' # "running")
           => /\ outcome'.kind = C9Class(program)
              /\ outcome'.ok => outcome'.text = C10Unescape(input)
              /\ outcome'.kind # "CompileError"
                 => SubSeq(outcome'.calls, 1, 4)
                      = <<"compile", "new_scope", "set_item", "run_code_obj">>]_vars

C19_Witness ==
    /\ pc = "terminated"
    /\ outcome.ok
    /\ input = <<"a">>
    /\ stdout = <<Write("println", <<"a">>)>>
    /\ Len(program_hist) = 2
    /\ LastIndexOf(stderr, RunErrorEvents) > 0

\* C20: no text occurs twice in History
C20_HistoryDistinct ==
    \A i, j \in 1..Len(program_hist) : program_hist[i] = program_hist[j] => i = j

C20_Witness ==
    /\ Len(program_hist) = 3
    /\ edited
    /\ program \notin Range(program_hist)

\* the distinct candidate texts the synthesizer can return
SynthesizerTexts == {generate_program(t) : t \in Completions}

\* C21: History never holds more entries than the synthesizer has distinct
\* texts, so at most that many minus one regenerations are accepted, and a
\* regeneration requested once History holds them all ends the session
C21_RegenerationBounded ==
    [][/\ Len(program_hist') <= Cardinality(SynthesizerTexts)
       /\ (/\ pc = "generating"
           /\ Len(program_hist) = Cardinality(SynthesizerTexts)
           /\ pc' # "generating")
           => /\ pc' = "terminated"
              /\ program_hist' = program_hist]_vars

C21_Witness ==
    /\ pc = "terminated"
    /\ exitCode = 0
    /\ Last(stderr).ev = RephraseMessage
    /\ Len(program_hist) = Cardinality(SynthesizerTexts)
    /\ Range(program_hist) = SynthesizerTexts

====
